---- MODULE Spec2Model ----
(***************************************************************************)
(* Model of Project_MuonEDA/src/data_loading.py: the whitespace loader,    *)
(* the structural cleaner and the column profiler that builds the schema   *)
(* report.                                                                 *)
(*                                                                         *)
(* Numbers are binary fractions held as integers in units of 1/Scale, so   *)
(* every float64 operation the code performs on them (comparison,          *)
(* subtraction, the <= 0.5 test) is exact.  Formatted text is a sequence   *)
(* of one-character strings.  Every numeric column has the dtype float64   *)
(* (pandas gives a column of whole numbers without a missing value the     *)
(* dtype int64, which differs in the dtype label and in the text of v in   *)
(* constant(v) only).  The fixed lines of the report (title, notes, table  *)
(* header) are left out of the report value.                               *)
(***************************************************************************)
EXTENDS Integers, Sequences, FiniteSets, TLC

VARIABLES file, result, df_raw, df, cleaned, pc, report, prev, change

vars == <<file, result, df_raw, df, cleaned, pc, report, prev, change>>

(***************************************************************************)
(* Bounds of the model.                                                    *)
(***************************************************************************)
\* longest freely chosen part of a column
MaxLen == 4
\* longest run of zero rows put in front of a column
ZeroRun == 19
\* columns of a table; the last one is col_9
NumCols == 2
\* lines of a raw file
MaxLines == 3

\* one unit of a numeric cell is 1/Scale
Scale == 8

(***************************************************************************)
(* Cells.  A missing cell is NaN; a numeric cell holds v/Scale; a text     *)
(* cell holds either a token s, or (s = "float") the text str(v/Scale).    *)
(***************************************************************************)
NaN == [k |-> "nan", v |-> 0, s |-> ""]

Num(x) == [k |-> "num", v |-> x, s |-> ""]

Str(t) == [k |-> "str", v |-> 0, s |-> t]

StrOfNum(x) == [k |-> "str", v |-> x, s |-> "float"]

(***************************************************************************)
(* Text rendering.                                                         *)
(***************************************************************************)
Digit(d) == <<"0", "1", "2", "3", "4", "5", "6", "7", "8", "9">>[d + 1]

RECURSIVE IntStr(_)
IntStr(n) == IF n < 10 THEN <<Digit(n)>> ELSE IntStr(n \div 10) \o <<Digit(n % 10)>>

\* the decimals of (x % Scale)/Scale, trailing zeros removed
FracDigits(x) ==
    LET f == ((x % Scale) * 1000) \div Scale
        d1 == f \div 100
        d2 == (f \div 10) % 10
        d3 == f % 10
    IN  IF f = 0 THEN <<>>
        ELSE IF d3 # 0 THEN <<Digit(d1), Digit(d2), Digit(d3)>>
        ELSE IF d2 # 0 THEN <<Digit(d1), Digit(d2)>>
        ELSE <<Digit(d1)>>

\* f"{x:.4g}" for 0 <= x < 10 (one integer digit and at most three decimals)
Fmt4g(x) ==
    IF FracDigits(x) = <<>> THEN IntStr(x \div Scale)
    ELSE IntStr(x \div Scale) \o <<".">> \o FracDigits(x)

\* f"{x}" of a float64
FloatStr(x) ==
    IntStr(x \div Scale) \o <<".">> \o
        (IF FracDigits(x) = <<>> THEN <<"0">> ELSE FracDigits(x))

\* f"{v}" of a cell of a series
CellStr(c) ==
    IF c.k = "num" THEN FloatStr(c.v)
    ELSE IF c.s = "float" THEN FloatStr(c.v)
    ELSE <<c.s>>

\* 10000*z/n rounded to the nearest integer, ties to even
Hundredths(z, n) ==
    LET q == (10000 * z) \div n
        r == (10000 * z) % n
    IN  IF 2 * r > n THEN q + 1
        ELSE IF 2 * r < n THEN q
        ELSE IF q % 2 = 0 THEN q ELSE q + 1

\* f"{(z/n*100):.2f}%"
FmtPct_Trunc(z, n) ==
    LET h == (10000 * z) \div n
    IN  IntStr(h \div 100) \o <<".", Digit((h \div 10) % 10), Digit(h % 10), "%">>

FmtPct(z, n) ==
    LET h == Hundredths(z, n)
    IN  IntStr(h \div 100) \o <<".", Digit((h \div 10) % 10), Digit(h % 10), "%">>

NA == <<"n", "/", "a">>

(***************************************************************************)
(* pandas Series helpers.  A column is [dtype, vals].                      *)
(***************************************************************************)
is_numeric_dtype(s) == s.dtype = "float64"

dropna(s) == [s EXCEPT !.vals = SelectSeq(s.vals, LAMBDA c : c.k # "nan")]

empty(s) == Len(s.vals) = 0

\* Series.nunique(): distinct values, missing ones not counted
nunique(s) == Cardinality({dropna(s).vals[i] : i \in DOMAIN dropna(s).vals})

NumSet(s) == {s.vals[i].v : i \in DOMAIN s.vals}

smin(s) == CHOOSE m \in NumSet(s) : \A x \in NumSet(s) : m <= x

smax(s) == CHOOSE m \in NumSet(s) : \A x \in NumSet(s) : m >= x

\* s.eq(0).sum(): a missing cell is not equal to 0
zeros(s) == Len(SelectSeq(s.vals, LAMBDA c : c.k = "num" /\ c.v = 0))

is_monotonic_increasing(s) ==
    \A i \in 1..(Len(s.vals) - 1) : s.vals[i].v <= s.vals[i + 1].v

is_monotonic_decreasing(s) ==
    \A i \in 1..(Len(s.vals) - 1) : s.vals[i].v >= s.vals[i + 1].v

(***************************************************************************)
(* Profiling helpers.                                                      *)
(***************************************************************************)
_monotonic_hint_IncOnly(s0) ==
    LET s == dropna(s0)
    IN  IF empty(s) THEN "empty"
        ELSE IF ~is_numeric_dtype(s) THEN "n/a"
        ELSE IF is_monotonic_increasing(s) THEN "monotonic_increasing"
        ELSE IF is_monotonic_decreasing(s) THEN "monotonic_decreasing"
        ELSE "not_monotonic"

_monotonic_hint(s0) ==
    LET s == dropna(s0)
        inc == is_monotonic_increasing(s)
        dec == is_monotonic_decreasing(s)
    IN  IF empty(s) THEN "empty"
        ELSE IF ~is_numeric_dtype(s) THEN "n/a"
        ELSE IF inc /\ ~dec THEN "monotonic_increasing"
        ELSE IF dec /\ ~inc THEN "monotonic_decreasing"
        ELSE "not_monotonic"

_zero_fraction_Trunc(s0) ==
    LET s == dropna(s0)
    IN  IF empty(s) \/ ~is_numeric_dtype(s) THEN NA
        ELSE FmtPct_Trunc(zeros(s), Len(s.vals))

_zero_fraction(s0) ==
    LET s == dropna(s0)
    IN  IF empty(s) \/ ~is_numeric_dtype(s) THEN NA
        ELSE FmtPct(zeros(s), Len(s.vals))

Hint(kind, n, arg) == [kind |-> kind, nunique |-> n, arg |-> arg]

\* the low-cardinality test placed before the near-constant test
_constant_hint_LowCardFirst(s) ==
    LET s2 == dropna(s)
        nun == nunique(s2)
    IN  IF empty(s2) THEN Hint("empty", 0, <<>>)
        ELSE IF nun = 1 THEN Hint("constant", 0, CellStr(s2.vals[1]))
        ELSE IF nun <= 3 THEN Hint("low_cardinality", nun, <<>>)
        ELSE IF is_numeric_dtype(s2) /\ nun <= 5 /\ 2 * (smax(s2) - smin(s2)) <= Scale
             THEN Hint("near_constant", nun, Fmt4g(smax(s2) - smin(s2)))
        ELSE Hint("varies", 0, <<>>)

_constant_hint(s) ==
    LET s2 == dropna(s)
        nun == nunique(s2)
    IN  IF empty(s2) THEN Hint("empty", 0, <<>>)
        ELSE IF nun = 1 THEN Hint("constant", 0, CellStr(s2.vals[1]))
        ELSE IF is_numeric_dtype(s2) /\ nun <= 5 /\ 2 * (smax(s2) - smin(s2)) <= Scale
             THEN Hint("near_constant", nun, Fmt4g(smax(s2) - smin(s2)))
        ELSE IF nun <= 3 THEN Hint("low_cardinality", nun, <<>>)
        ELSE Hint("varies", 0, <<>>)

(***************************************************************************)
(* Tables.  A table is a sequence of NumCols columns of one height; the    *)
(* loader names them col_<i>, and the model keeps the last one, col_9,     *)
(* together with the first NumCols - 1.                                    *)
(***************************************************************************)
ColName(i) ==
    IF i = NumCols THEN "col_9"
    ELSE <<"col_0", "col_1", "col_2", "col_3", "col_4", "col_5", "col_6", "col_7", "col_8">>[i]

Height(t) == Len(t[1].vals)

(***************************************************************************)
(* possible_role, the closure of build_schema_report, and the loop body    *)
(* that makes one row of the column summary.                               *)
(***************************************************************************)
\* rule 2c placed before rule 2b
possible_role_FlagFirst(col, s) ==
    IF col = "col_9" /\ nunique(s) = 1 THEN "label/type (constant category)"
    ELSE IF is_numeric_dtype(s) THEN
        LET s_num == dropna(s)
        IN  IF nunique(s) = 1 THEN "constant sensor/setting (e.g., fixed parameter)"
            ELSE IF _zero_fraction(s) # NA /\ 100 * zeros(s) > 95 * Len(s.vals)
                 THEN "flag/status/unused channel (mostly zeros)"
            ELSE IF ~empty(s_num) /\ nunique(s_num) <= 5
                    /\ 2 * (smax(s_num) - smin(s_num)) <= Scale
                 THEN "near-constant reading (low variation)"
            ELSE IF _monotonic_hint(s) = "monotonic_increasing"
                 THEN "counter or time-like variable (monotonic)"
            ELSE "unknown"
    ELSE "unknown"

\* the trailing-column rule placed after the numeric rules
possible_role_NumericFirst(col, s) ==
    IF is_numeric_dtype(s) /\ nunique(s) = 1
        THEN "constant sensor/setting (e.g., fixed parameter)"
    ELSE IF col = "col_9" /\ nunique(s) = 1 THEN "label/type (constant category)"
    ELSE IF is_numeric_dtype(s) THEN
        LET s_num == dropna(s)
        IN  IF ~empty(s_num) /\ nunique(s_num) <= 5
               /\ 2 * (smax(s_num) - smin(s_num)) <= Scale
                 THEN "near-constant reading (low variation)"
            ELSE IF _zero_fraction(s) # NA /\ 100 * zeros(s) > 95 * Len(s.vals)
                 THEN "flag/status/unused channel (mostly zeros)"
            ELSE IF _monotonic_hint(s) = "monotonic_increasing"
                 THEN "counter or time-like variable (monotonic)"
            ELSE "unknown"
    ELSE "unknown"

\* s.eq(0).mean() is taken over every row, the missing ones included; with no
\* non-missing value max - min is nan and the comparison is false
possible_role(col, s) ==
    IF col = "col_9" /\ nunique(s) = 1 THEN "label/type (constant category)"
    ELSE IF is_numeric_dtype(s) THEN
        LET s_num == dropna(s)
        IN  IF nunique(s) = 1 THEN "constant sensor/setting (e.g., fixed parameter)"
            ELSE IF ~empty(s_num) /\ nunique(s_num) <= 5
                    /\ 2 * (smax(s_num) - smin(s_num)) <= Scale
                 THEN "near-constant reading (low variation)"
            ELSE IF _zero_fraction(s) # NA /\ 100 * zeros(s) > 95 * Len(s.vals)
                 THEN "flag/status/unused channel (mostly zeros)"
            ELSE IF _monotonic_hint(s) = "monotonic_increasing"
                 THEN "counter or time-like variable (monotonic)"
            ELSE "unknown"
    ELSE "unknown"

Row(col, s, role) ==
    LET s_num == dropna(s)
        num == is_numeric_dtype(s)
    IN  [column |-> col,
         dtype  |-> s.dtype,
         nunique |-> nunique(dropna(s)),
         min    |-> IF num /\ ~empty(s_num) THEN Fmt4g(smin(s_num)) ELSE <<>>,
         max    |-> IF num /\ ~empty(s_num) THEN Fmt4g(smax(s_num)) ELSE <<>>,
         zeros  |-> IF num THEN _zero_fraction(s) ELSE NA,
         mono   |-> IF num THEN _monotonic_hint(s) ELSE "n/a",
         const  |-> _constant_hint(s),
         role   |-> role]

\* the role computed from the first column of the table
SummaryRow_FirstColumnRole(t, i) == Row(ColName(i), t[i], possible_role(ColName(i), t[1]))

SummaryRow(t, i) == Row(ColName(i), t[i], possible_role(ColName(i), t[i]))

\* rows appended at the front
SummaryRows_Reversed(t) == [i \in 1..Len(t) |-> SummaryRow(t, Len(t) + 1 - i)]

SummaryRows(t) == [i \in 1..Len(t) |-> SummaryRow(t, i)]

build_schema_report(t) ==
    [rows |-> Height(t), cols |-> Len(t), summary |-> SummaryRows(t)]

NoReport == [rows |-> 0 - 1, cols |-> 0 - 1, summary |-> <<>>]

(***************************************************************************)
(* basic_structural_clean.                                                 *)
(***************************************************************************)
\* astype(str).str.strip() of one cell: a missing cell becomes the text nan
astype_str(c) ==
    IF c.k = "nan" THEN Str("nan")
    ELSE IF c.k = "num" THEN StrOfNum(c.v)
    ELSE c

\* pd.to_numeric(errors="coerce") of one cell
to_numeric(c) ==
    IF c.k = "num" THEN c
    ELSE IF c.k = "str" /\ c.s = "float" THEN Num(c.v)
    ELSE NaN

basic_structural_clean(t) ==
    [i \in 1..Len(t) |->
        IF ColName(i) = "col_9"
        THEN [dtype |-> "object",
              vals |-> [j \in 1..Len(t[i].vals) |-> astype_str(t[i].vals[j])]]
        ELSE [dtype |-> "float64",
              vals |-> [j \in 1..Len(t[i].vals) |-> to_numeric(t[i].vals[j])]]]

(***************************************************************************)
(* The tables the model runs the profiler on.                              *)
(***************************************************************************)
NumVals == {0, 1, 2, 4, Scale}

TextVals == {"a", "b", "c", "COSMIC"}

SeqsUpTo(S, n) == UNION {[1..k -> S] : k \in 0..n}

Zeros(k) == [i \in 1..k |-> Num(0)]

NumCells(V) == {Num(x) : x \in V} \cup {NaN}

\* float64 columns: a run of pad zero rows, then up to MaxLen free cells
NumericCols(V, Pads) ==
    {[dtype |-> "float64", vals |-> Zeros(k) \o c] :
        k \in Pads, c \in SeqsUpTo(NumCells(V), MaxLen)}

\* object columns: text tokens and missing cells.
\* read_csv gives a column the object dtype only when it holds a text token
TextCols(V) ==
    {[dtype |-> "object", vals |-> c] :
        c \in {q \in SeqsUpTo({Str(x) : x \in V} \cup {NaN}, MaxLen) :
                  q = <<>> \/ \E j \in DOMAIN q : q[j].k = "str"}}

FillerKinds == {"label", "blank", "ramp"}

\* a column of height n that stands beside the freely chosen one
Filler(kind, n) ==
    IF kind = "label" THEN [dtype |-> "object", vals |-> [j \in 1..n |-> Str("COSMIC")]]
    ELSE IF kind = "blank" THEN [dtype |-> "float64", vals |-> [j \in 1..n |-> NaN]]
    ELSE [dtype |-> "float64", vals |-> [j \in 1..n |-> Num(j * Scale)]]

\* tables with the column c in the first or in the trailing place and fillers elsewhere
Tables(Cols, Kinds) ==
    {[i \in 1..NumCols |-> IF i = p THEN c ELSE Filler(f, Len(c.vals))] :
        p \in {1, NumCols}, c \in Cols, f \in Kinds}

\* columns of many values with no or a long run of zeros, columns of zero and
\* non-zero cells after every run of zeros, and text columns
MainCols ==
    NumericCols(NumVals, {0, ZeroRun}) \cup NumericCols({0, Scale}, 0..ZeroRun)
        \cup TextCols(TextVals)

PairCols == NumericCols({0, 1, Scale}, {0, ZeroRun}) \cup TextCols({"a", "b"})

NoFile == [exists |-> FALSE, lines |-> <<>>]

NoResult == [status |-> "none", rows |-> <<>>]

NoChange == [kind |-> "none", col |-> 0]

(***************************************************************************)
(* The pipeline of main(): the loaded table is cleaned and then profiled;  *)
(* build_schema_report is also run on a table that was not cleaned.        *)
(***************************************************************************)
Init ==
    /\ df_raw \in Tables(MainCols, {"label", "ramp"})
    /\ df = df_raw
    /\ cleaned = FALSE
    /\ pc = "loaded"
    /\ report = NoReport
    /\ prev = NoReport
    /\ change = NoChange
    /\ file = NoFile
    /\ result = NoResult

BasicStructuralClean ==
    /\ pc = "loaded"
    /\ df' = basic_structural_clean(df)
    /\ cleaned' = TRUE
    /\ pc' = "cleaned"
    /\ UNCHANGED <<file, result, df_raw, report, prev, change>>

BuildSchemaReport ==
    /\ pc \in {"loaded", "cleaned"}
    /\ report' = build_schema_report(df)
    /\ pc' = "reported"
    /\ UNCHANGED <<file, result, df_raw, df, cleaned, prev, change>>

Next == BasicStructuralClean \/ BuildSchemaReport

Spec == Init /\ [][Next]_vars

(***************************************************************************)
(* A caller that runs build_schema_report a second time: on the same       *)
(* table, on the table with one column replaced, or on the table with two  *)
(* neighbouring rows exchanged.                                            *)
(***************************************************************************)
InitPair ==
    /\ df_raw \in Tables(PairCols, {"label"})
    /\ df = df_raw
    /\ cleaned = FALSE
    /\ pc = "loaded"
    /\ report = NoReport
    /\ prev = NoReport
    /\ change = NoChange
    /\ file = NoFile
    /\ result = NoResult

RerunSame ==
    /\ pc = "reported"
    /\ prev = NoReport
    /\ prev' = report
    /\ change' = [kind |-> "same", col |-> 0]
    /\ pc' = "loaded"
    /\ UNCHANGED <<file, result, df_raw, df, cleaned, report>>

ReplaceColumn ==
    /\ pc = "reported"
    /\ prev = NoReport
    /\ \E j \in 1..NumCols, f \in FillerKinds :
        /\ df' = [df EXCEPT ![j] = Filler(f, Height(df))]
        /\ change' = [kind |-> "replace", col |-> j]
    /\ prev' = report
    /\ pc' = "loaded"
    /\ UNCHANGED <<file, result, df_raw, cleaned, report>>

SwapCells(v, a) ==
    [j \in 1..Len(v) |-> IF j = a THEN v[a + 1] ELSE IF j = a + 1 THEN v[a] ELSE v[j]]

SwapRows ==
    /\ pc = "reported"
    /\ prev = NoReport
    /\ \E a \in 1..(Height(df) - 1) :
        /\ df' = [i \in 1..Len(df) |-> [df[i] EXCEPT !.vals = SwapCells(df[i].vals, a)]]
        /\ change' = [kind |-> "swap", col |-> a]
    /\ prev' = report
    /\ pc' = "loaded"
    /\ UNCHANGED <<file, result, df_raw, cleaned, report>>

NextPair == BuildSchemaReport \/ RerunSame \/ ReplaceColumn \/ SwapRows

SpecPair == InitPair /\ [][NextPair]_vars

(***************************************************************************)
(* load_munra_raw.  A line of the raw file is its number of fields (0 for  *)
(* a blank line) and whether every field is an NA token.                   *)
(***************************************************************************)
ExpectedCols == 10

LineKinds ==
    {[nf |-> 0, na |-> FALSE]} \cup
    {[nf |-> n, na |-> b] :
        n \in {ExpectedCols - 1, ExpectedCols, ExpectedCols + 1}, b \in BOOLEAN}

Files ==
    {NoFile} \cup {[exists |-> TRUE, lines |-> l] : l \in SeqsUpTo(LineKinds, MaxLines)}

NonBlank(lines) == {i \in DOMAIN lines : lines[i].nf > 0}

\* pd.read_csv(sep=r"\s+", header=None, engine="python", on_bad_lines="skip"):
\* blank lines are skipped, the first line left sets the number of columns,
\* shorter lines are filled with NaN and longer lines are dropped
read_csv(lines) ==
    LET first == CHOOSE i \in NonBlank(lines) : \A j \in NonBlank(lines) : i <= j
        ncols == lines[first].nf
        idx   == [i \in DOMAIN lines |-> i]
    IN  [ncols |-> ncols,
         rows  |-> SelectSeq(idx, LAMBDA i : lines[i].nf > 0 /\ lines[i].nf <= ncols)]

\* the shape check left out
load_munra_raw_NoShapeCheck(f) ==
    IF ~f.exists THEN [status |-> "FileNotFoundError", rows |-> <<>>]
    ELSE IF NonBlank(f.lines) = {} THEN [status |-> "EmptyDataError", rows |-> <<>>]
    ELSE LET parsed == read_csv(f.lines)
             kept == SelectSeq(parsed.rows, LAMBDA i : ~f.lines[i].na)
         IN  [status |-> "ok", rows |-> kept]

\* rows holds, for each row of the returned table, the line it was read from
load_munra_raw(f) ==
    IF ~f.exists THEN [status |-> "FileNotFoundError", rows |-> <<>>]
    ELSE IF NonBlank(f.lines) = {} THEN [status |-> "EmptyDataError", rows |-> <<>>]
    ELSE LET parsed == read_csv(f.lines)
             kept == SelectSeq(parsed.rows, LAMBDA i : ~f.lines[i].na)
         IN  IF parsed.ncols # ExpectedCols THEN [status |-> "ValueError", rows |-> <<>>]
             ELSE [status |-> "ok", rows |-> kept]

InitLoad ==
    /\ file \in Files
    /\ result = NoResult
    /\ pc = "start"
    /\ df_raw = <<>>
    /\ df = <<>>
    /\ cleaned = FALSE
    /\ report = NoReport
    /\ prev = NoReport
    /\ change = NoChange

LoadMunraRaw ==
    /\ pc = "start"
    /\ result' = load_munra_raw(file)
    /\ pc' = "parsed"
    /\ UNCHANGED <<file, df_raw, df, cleaned, report, prev, change>>

NextLoad == LoadMunraRaw

SpecLoad == InitLoad /\ [][NextLoad]_vars

(***************************************************************************)
(* Vocabulary of the properties: a column described by its cells, without  *)
(* the helpers of the profiler.                                            *)
(***************************************************************************)
Reported == pc = "reported"

Present(c) == {j \in DOMAIN c.vals : c.vals[j].k # "nan"}

Distinct(c) == {c.vals[j] : j \in Present(c)}

IsNumeric(c) == c.dtype = "float64"

IsTrailing(i) == ColName(i) = "col_9"

ZeroCount(c) == Cardinality({j \in Present(c) : c.vals[j].v = 0})

\* max - min <= 0.5 over the non-missing values
SmallRange(c) == \A x, y \in Distinct(c) : 2 * (x.v - y.v) <= Scale

NonDecreasing(c) == \A a, b \in Present(c) : a < b => c.vals[a].v <= c.vals[b].v

NonIncreasing(c) == \A a, b \in Present(c) : a < b => c.vals[a].v >= c.vals[b].v

NearConstant(c) == Cardinality(Distinct(c)) <= 5 /\ SmallRange(c)

\* more than 95% of the non-missing values are zero
MostlyZeros(c) == Present(c) # {} /\ 100 * ZeroCount(c) > 95 * Cardinality(Present(c))

DigitVal(ch) == CHOOSE d \in 0..9 : Digit(d) = ch

RECURSIVE DigitsVal(_)
DigitsVal(str) ==
    IF str = <<>> THEN 0
    ELSE 10 * DigitsVal(SubSeq(str, 1, Len(str) - 1)) + DigitVal(str[Len(str)])

IsDigits(str) == Len(str) >= 1 /\ \A j \in DOMAIN str : \E d \in 0..9 : Digit(d) = str[j]

\* text of the form <digits>.<digit><digit>%
IsPct(str) ==
    /\ Len(str) >= 5
    /\ str[Len(str)] = "%"
    /\ str[Len(str) - 3] = "."
    /\ IsDigits(SubSeq(str, 1, Len(str) - 4))
    /\ IsDigits(SubSeq(str, Len(str) - 2, Len(str) - 1))
    /\ (Len(str) > 5 => str[1] # "0")

\* the number of hundredths of a percent such a text states
PctValue(str) ==
    100 * DigitsVal(SubSeq(str, 1, Len(str) - 4))
        + DigitsVal(SubSeq(str, Len(str) - 2, Len(str) - 1))

(***************************************************************************)
(* C1: possible_role is a first-match-wins chain.  For every numeric       *)
(* column that is not the trailing column, has no missing value and has at *)
(* least two distinct values the role is near-constant when there are at   *)
(* most 5 distinct values within a range of 0.5, otherwise flag when more  *)
(* than 95% of the values are zero, otherwise counter when the monotonic   *)
(* hint is monotonic_increasing, otherwise unknown; a text column the      *)
(* trailing-column rule does not match gets unknown.                       *)
(***************************************************************************)
C1_RoleChain ==
    Reported =>
        \A i \in DOMAIN df :
            /\ (/\ IsNumeric(df[i])
                /\ ~IsTrailing(i)
                /\ Cardinality(Present(df[i])) = Len(df[i].vals)
                /\ Cardinality(Distinct(df[i])) >= 2)
               => report.summary[i].role =
                    IF NearConstant(df[i]) THEN "near-constant reading (low variation)"
                    ELSE IF MostlyZeros(df[i]) THEN "flag/status/unused channel (mostly zeros)"
                    ELSE IF report.summary[i].mono = "monotonic_increasing"
                         THEN "counter or time-like variable (monotonic)"
                    ELSE "unknown"
            /\ (~IsNumeric(df[i]) /\ ~(IsTrailing(i) /\ Cardinality(Distinct(df[i])) = 1))
               => report.summary[i].role = "unknown"

\* a complete column of many zeros and one other value, far from zero, got the flag role
C1_Witness ==
    /\ Reported
    /\ \E i \in DOMAIN df :
        /\ IsNumeric(df[i]) /\ ~IsTrailing(i)
        /\ Cardinality(Present(df[i])) = Len(df[i].vals)
        /\ Cardinality(Distinct(df[i])) = 2
        /\ ~SmallRange(df[i])
        /\ NonDecreasing(df[i])
        /\ report.summary[i].role = "flag/status/unused channel (mostly zeros)"

(***************************************************************************)
(* C2: _constant_hint checks, in this order, on the non-missing values:    *)
(* none -> empty; one distinct value v -> constant(v); numeric with at     *)
(* most 5 distinct values within a range of 0.5 -> near_constant(nunique,  *)
(* range); at most 3 distinct values -> low_cardinality(nunique);          *)
(* otherwise varies.                                                       *)
(***************************************************************************)
C2_ConstantHint ==
    Reported =>
        \A i \in DOMAIN df :
            LET c == df[i]
                n == Cardinality(Distinct(c))
                h == report.summary[i].const
                hi == CHOOSE x \in Distinct(c) : \A y \in Distinct(c) : x.v >= y.v
                lo == CHOOSE x \in Distinct(c) : \A y \in Distinct(c) : x.v <= y.v
            IN  IF n = 0 THEN h.kind = "empty"
                ELSE IF n = 1
                     THEN h.kind = "constant" /\ \E x \in Distinct(c) : h.arg = CellStr(x)
                ELSE IF IsNumeric(c) /\ n <= 5 /\ SmallRange(c)
                     THEN h.kind = "near_constant" /\ h.nunique = n
                          /\ h.arg = Fmt4g(hi.v - lo.v)
                ELSE IF n <= 3 THEN h.kind = "low_cardinality" /\ h.nunique = n
                ELSE h.kind = "varies"

\* a numeric column of 2 or 3 distinct values within 0.5 was reported near_constant
C2_Witness ==
    /\ Reported
    /\ \E i \in DOMAIN df :
        /\ IsNumeric(df[i])
        /\ Cardinality(Distinct(df[i])) \in {2, 3}
        /\ SmallRange(df[i])
        /\ report.summary[i].const.kind = "near_constant"

(***************************************************************************)
(* C3: for a numeric column with a non-missing value the monotonic hint is *)
(* monotonic_increasing exactly when the non-missing values, in row order, *)
(* are non-decreasing and not non-increasing, monotonic_decreasing exactly *)
(* when they are non-increasing and not non-decreasing, and not_monotonic  *)
(* otherwise (a constant or single-value sequence included).               *)
(***************************************************************************)
C3_MonotonicHint ==
    Reported =>
        \A i \in DOMAIN df :
            (IsNumeric(df[i]) /\ Present(df[i]) # {}) =>
                LET m == report.summary[i].mono
                    up == NonDecreasing(df[i])
                    down == NonIncreasing(df[i])
                IN  /\ (m = "monotonic_increasing") <=> (up /\ ~down)
                    /\ (m = "monotonic_decreasing") <=> (down /\ ~up)
                    /\ (m = "not_monotonic") <=> ((up /\ down) \/ (~up /\ ~down))

\* a numeric column holding one value in several rows was reported not_monotonic
C3_Witness ==
    /\ Reported
    /\ \E i \in DOMAIN df :
        /\ IsNumeric(df[i])
        /\ Cardinality(Present(df[i])) >= 2
        /\ Cardinality(Distinct(df[i])) = 1
        /\ report.summary[i].mono = "not_monotonic"

(***************************************************************************)
(* C4: a numeric column whose non-missing values have exactly one distinct *)
(* value v is reported constant(v), with the role constant sensor/setting  *)
(* (fixed parameter), except in the trailing column, where the             *)
(* trailing-column rule wins and the role is label/type.                   *)
(***************************************************************************)
C4_Original ==
    Reported =>
        \A i \in DOMAIN df :
            (IsNumeric(df[i]) /\ Cardinality(Distinct(df[i])) = 1) =>
                /\ report.summary[i].const.kind = "constant"
                /\ \E x \in Distinct(df[i]) : report.summary[i].const.arg = FloatStr(x.v)
                /\ report.summary[i].role =
                     IF IsTrailing(i) THEN "label/type (constant category)"
                     ELSE "constant sensor/setting (fixed parameter)"

\* C4 as amended: the role's text is the one the code writes,
\* constant sensor/setting (e.g., fixed parameter)
C4_ConstantColumn ==
    Reported =>
        \A i \in DOMAIN df :
            (IsNumeric(df[i]) /\ Cardinality(Distinct(df[i])) = 1) =>
                /\ report.summary[i].const.kind = "constant"
                /\ \E x \in Distinct(df[i]) : report.summary[i].const.arg = FloatStr(x.v)
                /\ report.summary[i].role =
                     IF IsTrailing(i) THEN "label/type (constant category)"
                     ELSE "constant sensor/setting (e.g., fixed parameter)"

\* a one-valued numeric column with a missing cell, not in the trailing place
C4_Witness ==
    /\ Reported
    /\ \E i \in DOMAIN df :
        /\ ~IsTrailing(i)
        /\ IsNumeric(df[i])
        /\ Cardinality(Distinct(df[i])) = 1
        /\ Cardinality(Present(df[i])) >= 2
        /\ Cardinality(Present(df[i])) < Len(df[i].vals)
        /\ report.summary[i].const.kind = "constant"
        /\ report.summary[i].role = "constant sensor/setting (e.g., fixed parameter)"

(***************************************************************************)
(* C5: every column of the loaded table in which all values are missing,   *)
(* numeric or text, at any position, the trailing column after             *)
(* basic_structural_clean included, is reported with monotonic hint empty, *)
(* zero fraction n/a, constant hint empty and role unknown.                *)
(***************************************************************************)
C5_AllMissing ==
    Reported =>
        \A i \in DOMAIN df_raw :
            (Len(df_raw[i].vals) >= 1 /\ Present(df_raw[i]) = {}) =>
                /\ report.summary[i].mono = "empty"
                /\ report.summary[i].zeros = NA
                /\ report.summary[i].const.kind = "empty"
                /\ report.summary[i].role = "unknown"

(***************************************************************************)
(* C7: for a numeric column with n >= 1 non-missing values, z of them      *)
(* zero, the zero fraction is 100*z/n written with exactly two decimals    *)
(* and a % sign: the nearest hundredth of a percent; 4 of 5 gives 80.00%   *)
(* and 10 of 11 gives 90.91%.                                              *)
(***************************************************************************)
C7_ZeroFraction ==
    Reported =>
        \A i \in DOMAIN df :
            (IsNumeric(df[i]) /\ Present(df[i]) # {}) =>
                LET z == ZeroCount(df[i])
                    n == Cardinality(Present(df[i]))
                    str == report.summary[i].zeros
                    err == PctValue(str) * n - 10000 * z
                IN  /\ IsPct(str)
                    /\ 2 * err <= n /\ 2 * (0 - err) <= n
                    /\ (z = 4 /\ n = 5) => str = <<"8", "0", ".", "0", "0", "%">>
                    /\ (z = 10 /\ n = 11) => str = <<"9", "0", ".", "9", "1", "%">>

\* a column with a missing cell and 10 zeros among 11 values was reported 90.91%
C7_Witness ==
    /\ Reported
    /\ \E i \in DOMAIN df :
        /\ IsNumeric(df[i])
        /\ Cardinality(Present(df[i])) = 11
        /\ Len(df[i].vals) > 11
        /\ ZeroCount(df[i]) = 10
        /\ report.summary[i].zeros = <<"9", "0", ".", "9", "1", "%">>

(***************************************************************************)
(* C10: rule 2c uses the zero fraction the report shows: a numeric column, *)
(* with or without missing values, that rules 1, 2a and 2b do not match    *)
(* gets the flag role whenever more than 95% of its non-missing values are *)
(* zero.                                                                   *)
(***************************************************************************)
C10_SameZeroFraction ==
    Reported =>
        \A i \in DOMAIN df :
            (/\ IsNumeric(df[i])
             /\ Cardinality(Distinct(df[i])) # 1
             /\ ~NearConstant(df[i])
             /\ MostlyZeros(df[i])
             /\ PctValue(report.summary[i].zeros) > 9500)
            => report.summary[i].role = "flag/status/unused channel (mostly zeros)"

(***************************************************************************)
(* C8: a column's summary row depends on that column alone: replacing      *)
(* another column leaves the row unchanged, and permuting the rows of the  *)
(* table changes no field of the row other than the monotonic hint.        *)
(***************************************************************************)
SameButMono(r1, r2) == [r1 EXCEPT !.mono = "-"] = [r2 EXCEPT !.mono = "-"]

SameButMonoAndRole(r1, r2) ==
    [r1 EXCEPT !.mono = "-", !.role = "-"] = [r2 EXCEPT !.mono = "-", !.role = "-"]

C8_Original ==
    (Reported /\ change.kind \in {"replace", "swap"}) =>
        \A i \in DOMAIN df :
            /\ (change.kind = "replace" /\ i # change.col)
               => report.summary[i] = prev.summary[i]
            /\ change.kind = "swap" => SameButMono(report.summary[i], prev.summary[i])

\* C8 as amended: permuting the rows changes no field other than the monotonic
\* hint and the role that rule 2d derives from it, and the role changes only
\* between the counter role and unknown
C8_OwnColumnOnly ==
    (Reported /\ change.kind \in {"replace", "swap"}) =>
        \A i \in DOMAIN df :
            /\ (change.kind = "replace" /\ i # change.col)
               => report.summary[i] = prev.summary[i]
            /\ change.kind = "swap" =>
                /\ SameButMonoAndRole(report.summary[i], prev.summary[i])
                /\ \/ report.summary[i].role = prev.summary[i].role
                   \/ {report.summary[i].role, prev.summary[i].role} =
                        {"counter or time-like variable (monotonic)", "unknown"}

\* two rows of a rising column were exchanged and its role went from counter to unknown
C8_Witness ==
    /\ Reported
    /\ change.kind = "swap"
    /\ \E i \in DOMAIN df :
        /\ prev.summary[i].role = "counter or time-like variable (monotonic)"
        /\ report.summary[i].role = "unknown"
        /\ prev.summary[i].mono # report.summary[i].mono

Parsed == pc = "parsed"

RowLines == {result.rows[j] : j \in DOMAIN result.rows}

FirstLine(f) == CHOOSE i \in NonBlank(f.lines) : \A j \in NonBlank(f.lines) : i <= j

C6_Original ==
    Parsed =>
        /\ ~file.exists => result.status = "FileNotFoundError"
        /\ (file.exists /\ NonBlank(file.lines) # {}
              /\ file.lines[FirstLine(file)].nf # ExpectedCols)
           => result.status = "ValueError"
        /\ result.status = "ok" => RowLines = NonBlank(file.lines)

\* C6 as amended: a call that succeeds returns, in file order, the non-blank
\* lines of at most 10 fields that are not all NA; a line of more than 10
\* fields is dropped silently, and so is a line whose fields are all NA
C6_BadLinesSkipped ==
    Parsed =>
        /\ ~file.exists => result.status = "FileNotFoundError"
        /\ (file.exists /\ NonBlank(file.lines) # {}
              /\ file.lines[FirstLine(file)].nf # ExpectedCols)
           => result.status = "ValueError"
        /\ result.status = "ok" =>
            /\ RowLines = {i \in NonBlank(file.lines) :
                              file.lines[i].nf <= ExpectedCols /\ ~file.lines[i].na}
            /\ \A a, b \in DOMAIN result.rows : a < b => result.rows[a] < result.rows[b]

\* a successful call that dropped a line of 11 fields and kept a line of 9
C6_Witness ==
    /\ Parsed
    /\ result.status = "ok"
    /\ \E i \in DOMAIN file.lines : file.lines[i].nf > ExpectedCols /\ i \notin RowLines
    /\ \E i \in DOMAIN file.lines : file.lines[i].nf = ExpectedCols - 1 /\ i \in RowLines

====
